---- MODULE Spec2Model ----
(***************************************************************************)
(* scripts/build_custom_tad_genelist.py: assign SNPs to the TADs that      *)
(* harbour them, collect every gene of those TADs and the nearest          *)
(* protein-coding gene of each SNP, and write both tables.                 *)
(*                                                                         *)
(* A DataFrame is a sequence of records (its rows, in row order); the      *)
(* index labels that reset_index(drop=True) hands out (0..n-1) are the     *)
(* sequence positions 1..n.  Every cell of the input tables is present     *)
(* (no NaN), positions and coordinates are integers and labels strings.    *)
(***************************************************************************)
EXTENDS Integers, Sequences, FiniteSets, TLC

VARIABLES
    pc,               \* "constants", "load", "loop", "done", "raised"
    error,            \* the exception that ended the run, or "none"
    args,             \* argparse namespace (line 35)
    globals,          \* module-level names bound by lines 62-68
    tad_genes_df,     \* the TAD-gene index (line 69)
    snp_df,           \* the SNP table (line 73)
    group_idx,        \* position of the outer loop in snp_df.group.unique()
    row_idx,          \* position of the inner loop in snp_sub_df
    results_df,       \* rows of the TAD-gene result table
    results_columns,  \* column labels of results_df
    nearest_gene_df,  \* rows of the nearest-gene table
    files             \* path -> rows written by to_csv

vars == <<pc, error, args, globals, tad_genes_df, snp_df, group_idx, row_idx,
          results_df, results_columns, nearest_gene_df, files>>

-----------------------------------------------------------------------------
(* Bounds of the checked inputs *)

MaxTadRows == 2
MaxSnpRows == 3
MaxPos == 3

-----------------------------------------------------------------------------
(* Generic helpers *)

Range(s) == {s[i] : i \in DOMAIN s}

Abs(x) == IF x < 0 THEN -x ELSE x

Min(S) == CHOOSE x \in S : \A y \in S : x <= y

Max(S) == CHOOSE x \in S : \A y \in S : x >= y

SeqsUpTo(S, n) == UNION {[1..k -> S] : k \in 0..n}

-----------------------------------------------------------------------------
(* Lines 38-59 *)

\* A lookup whose upper bound is closed (TAD_end >= position).
assign_custom_snp_to_tad_closed(snp_signal, tad_boundary) ==
    LET chrom == SubSeq(snp_signal.chrom, 4, Len(snp_signal.chrom))
        snp_loc == snp_signal.position
        InTad(r) == /\ r.chromosome = chrom
                    /\ r.TAD_start <= snp_loc
                    /\ r.TAD_end >= snp_loc
    IN  SelectSeq(tad_boundary, InTad)

\* chrom = snp_signal.chrom[3:], snp_loc = int(snp_signal.position); the rows
\* of tad_boundary that pass the three-way mask, in row order, re-indexed.
assign_custom_snp_to_tad(snp_signal, tad_boundary) ==
    LET chrom == SubSeq(snp_signal.chrom, 4, Len(snp_signal.chrom))
        snp_loc == snp_signal.position
        InTad(r) == /\ r.chromosome = chrom
                    /\ r.TAD_start <= snp_loc
                    /\ r.TAD_end > snp_loc
    IN  SelectSeq(tad_boundary, InTad)

-----------------------------------------------------------------------------
(* Lines 61-68: script constants *)

\* os.path.splitext(p)[0]: p up to its last dot, when that dot comes after
\* the last separator and after a character of the file name that is no dot.
splitext_root(p) ==
    LET seps == {i \in 1..Len(p) : SubSeq(p, i, i) = "/"}
        dots == {i \in 1..Len(p) : SubSeq(p, i, i) = "."}
        sepIndex == IF seps = {} THEN 0 ELSE Max(seps)
        dotIndex == IF dots = {} THEN 0 ELSE Max(dots)
    IN  IF /\ dotIndex > sepIndex
           /\ \E k \in (sepIndex + 1)..(dotIndex - 1) : SubSeq(p, k, k) # "."
        THEN SubSeq(p, 1, dotIndex - 1)
        ELSE p

\* Lines 62-65.
script_constants(a) ==
    [snp_data_file |-> a.snp_data_file,
     output_file |-> a.output_file,
     output_nearest_gene_file |->
         splitext_root(a.output_file) \o "_nearest_gene.tsv"]

\* Line 68.
index_file_name(tad_cell) == "GENE_index_hg19_" \o tad_cell \o ".tsv.bz2"

-----------------------------------------------------------------------------
(* Lines 78-85: the loops *)

\* Column labels of the TAD-gene index: the thirteen labels the script gives
\* results_df (lines 128-130) are these eleven plus custom_snp and group.
TadColumns ==
    {"TAD_end", "TAD_id", "TAD_start", "chromosome", "db", "gene_name",
     "gene_type", "start", "stop", "strand", "type"}

\* Lines 128-130.
OutputColumns ==
    <<"TADEnd", "TADidx", "TADStart", "chrom", "custom_snp", "db",
      "gene_name", "gene_type", "group", "start", "stop", "strand", "type">>

\* Series.unique(): the distinct values in order of first appearance.
\* This variant returns them in order of last appearance.
RECURSIVE unique_last(_)
unique_last(s) ==
    IF s = <<>> THEN <<>>
    ELSE LET u == unique_last(Tail(s))
         IN  IF Head(s) \in Range(u) THEN u ELSE <<Head(s)>> \o u

RECURSIVE unique(_)
unique(s) ==
    IF s = <<>> THEN <<>>
    ELSE LET n == Len(s)
             u == unique(SubSeq(s, 1, n - 1))
         IN  IF s[n] \in Range(u) THEN u ELSE Append(u, s[n])

\* snp_df.group
group_column(df) == [i \in DOMAIN df |-> df[i].group]

\* Line 81: snp_df[snp_df['group'] == group]
group_rows(df, g) ==
    LET InGroup(r) == r.group = g IN SelectSeq(df, InGroup)

groups == unique(group_column(snp_df))

LoopFinished == group_idx > Len(groups)

group == groups[group_idx]

snp_sub_df == group_rows(snp_df, group)

snp_series == snp_sub_df[row_idx]

-----------------------------------------------------------------------------
(* Lines 90-112: nearest protein-coding gene *)

\* Line 91 with the coding filter left out.
protein_coding_all(tad_assignment) == DOMAIN tad_assignment

\* Lines 91-92: the index labels the protein_coding frame keeps.
protein_coding(tad_assignment) ==
    {i \in DOMAIN tad_assignment :
        tad_assignment[i].gene_type = "protein_coding"}

\* (protein_coding.<column> - position).abs(), as label -> distance.
start_dist(tad_assignment, position) ==
    [i \in protein_coding(tad_assignment) |->
        Abs(tad_assignment[i].start - position)]

stop_dist(tad_assignment, position) ==
    [i \in protein_coding(tad_assignment) |->
        Abs(tad_assignment[i].stop - position)]

\* numpy's quicksort hands an array of at most this many elements to insertion
\* sort, which is stable; a longer array is partitioned first.
SmallQuicksort == 16

\* Series.sort_values() with its default kind='quicksort': the labels in
\* ascending order of their values.  Labels with equal values keep their
\* order in a short series; in a longer one the sort is not stable and their
\* order is any of the orders a build can produce.
sort_values(s) ==
    LET n == Cardinality(DOMAIN s)
        Ascending(o) ==
            \A i, j \in 1..n : i < j => (o[i] # o[j] /\ s[o[i]] <= s[o[j]])
        Stable(o) ==
            \A i, j \in 1..n : (i < j /\ s[o[i]] = s[o[j]]) => o[i] < o[j]
    IN  {o \in [1..n -> DOMAIN s] :
            Ascending(o) /\ (n <= SmallQuicksort => Stable(o))}

\* A selection that walks the labels in row order instead of dist_df's order.
near_gene_idx_row_order(order, starts, stops) ==
    IF order = <<>> THEN <<>>
    ELSE LET m == Min(Range(starts) \cup Range(stops))
             n == Len(order)
             rows == [k \in 1..n |->
                        Min({i \in Range(order) :
                             Cardinality({j \in Range(order) : j < i}) = k - 1})]
             AtMin(i) == starts[i] = m \/ stops[i] = m
         IN  SelectSeq(rows, AtMin)

\* Lines 95-105.  dist_df is the start distances in sorted order (order),
\* left-joined with the stop distances, so it keeps that row order;
\* dist_df.min().min() is the minimum over both columns, and
\* dropna(thresh=1) keeps the rows that equal it in either column.
near_gene_idx(order, starts, stops) ==
    IF order = <<>> THEN <<>>
    ELSE LET m == Min(Range(starts) \cup Range(stops))
             AtMin(i) == starts[i] = m \/ stops[i] = m
         IN  SelectSeq(order, AtMin)

\* A variant without the empty case: it falls back on the first matched row.
nearest_gene_first_row(tad_assignment, order, position) ==
    LET idx == near_gene_idx(order, start_dist(tad_assignment, position),
                             stop_dist(tad_assignment, position))
    IN  IF Len(idx) = 0 THEN tad_assignment[1].gene_name
        ELSE tad_assignment[Head(idx)].gene_name

\* Lines 108-112.
nearest_gene(tad_assignment, order, position) ==
    LET idx == near_gene_idx(order, start_dist(tad_assignment, position),
                             stop_dist(tad_assignment, position))
    IN  IF Len(idx) = 0 THEN ""
        ELSE tad_assignment[Head(idx)].gene_name

-----------------------------------------------------------------------------
(* Lines 114-124: the rows appended for one SNP *)

\* A variant that reports a SNP only when it has a nearest gene.
nearest_gene_return_nonempty(gene, snp, grp) ==
    IF gene = "" THEN <<>> ELSE <<[gene |-> gene, snp |-> snp, group |-> grp]>>

\* Lines 115-117.
nearest_gene_return(gene, snp, grp) ==
    <<[gene |-> gene, snp |-> snp, group |-> grp]>>

\* A variant that keeps only the protein-coding rows.
annotate_coding_only(tad_assignment, snp, grp) ==
    LET Coding(r) == r.gene_type = "protein_coding"
        kept == SelectSeq(tad_assignment, Coding)
    IN  [i \in DOMAIN kept |-> kept[i] @@ [custom_snp |-> snp, group |-> grp]]

\* A variant that labels the rows with the first group of the SNP table.
annotate_first_group(tad_assignment, snp, grp) ==
    [i \in DOMAIN tad_assignment |->
        tad_assignment[i] @@ [custom_snp |-> snp, group |-> snp_df[1].group]]

\* Lines 122-123.
annotate(tad_assignment, snp, grp) ==
    [i \in DOMAIN tad_assignment |->
        tad_assignment[i] @@ [custom_snp |-> snp, group |-> grp]]

-----------------------------------------------------------------------------
(* Inputs *)

Groups == {"g1", "g2"}

GeneTypes == {"protein_coding", "lincRNA"}

\* The RSid of a SNP names its locus.
RSid(chrom, position) == "rs_" \o chrom \o "_" \o ToString(position)

SnpRow(chrom, position, grp) ==
    [snp |-> RSid(chrom, position), chrom |-> chrom, position |-> position,
     group |-> grp]

\* The index has one row per gene: row i is gene i.
GeneName(i) == "gene" \o ToString(i)

NamedTables(kinds, n) ==
    {[i \in DOMAIN f |-> f[i] @@ [gene_name |-> GeneName(i)]] :
        f \in SeqsUpTo(kinds, n)}

Spans == {<<a, b>> \in (0..MaxPos) \X (0..MaxPos) : a <= b}

TadIntervals == {<<a, b>> \in (0..MaxPos) \X (0..MaxPos) : a < b}

GeneKind(chromosome, tad, gene_type, span) ==
    [chromosome |-> chromosome, TAD_start |-> tad[1], TAD_end |-> tad[2],
     gene_type |-> gene_type, start |-> span[1], stop |-> span[2]]

\* Genes of chromosome 1 in a short and in a long TAD and a gene of chromosome
\* X; SNPs of two groups at two loci of chromosome 1: the first lies in both
\* TADs, the second only in the long one.
LoopGenes ==
    {GeneKind("1", iv, t, <<0, 3>>) : iv \in {<<1, 2>>, <<1, 3>>}, t \in GeneTypes}
        \cup {GeneKind("X", <<1, 3>>, "protein_coding", <<0, 3>>)}

LoopSnps == {SnpRow("chr1", p, g) : p \in {1, 2}, g \in Groups}

-----------------------------------------------------------------------------
(* Actions *)

\* Lines 62-65.
LoadConstants ==
    /\ pc = "constants"
    /\ globals' = script_constants(args)
    /\ pc' = "load"
    /\ UNCHANGED <<error, args, tad_genes_df, snp_df, group_idx, row_idx,
                   results_df, results_columns, nearest_gene_df, files>>

\* Lines 68-79.  Line 68 reads the global name tad_cell; a name that no
\* earlier statement bound raises NameError.
LoadData ==
    /\ pc = "load"
    /\ IF "tad_cell" \in DOMAIN globals
       THEN /\ globals' = globals @@
                   [index_file |-> index_file_name(globals.tad_cell)]
            /\ tad_genes_df' \in NamedTables(LoopGenes, MaxTadRows)
            /\ snp_df' \in SeqsUpTo(LoopSnps, MaxSnpRows)
            /\ results_columns' = TadColumns \cup {"group"}
            /\ pc' = "loop"
            /\ UNCHANGED error
       ELSE /\ pc' = "raised"
            /\ error' = "NameError"
            /\ UNCHANGED <<globals, tad_genes_df, snp_df, results_columns>>
    /\ UNCHANGED <<args, group_idx, row_idx, results_df, nearest_gene_df,
                   files>>

\* The for statements of lines 80 and 83 move on to the next SNP row.
Advance ==
    IF row_idx < Len(snp_sub_df)
    THEN /\ row_idx' = row_idx + 1
         /\ UNCHANGED group_idx
    ELSE /\ row_idx' = 1
         /\ group_idx' = group_idx + 1

\* Lines 85-88 for a SNP that lies in no TAD.
SkipSnp ==
    /\ pc = "loop"
    /\ ~LoopFinished
    /\ assign_custom_snp_to_tad(snp_series, tad_genes_df) = <<>>
    /\ Advance
    /\ UNCHANGED <<pc, error, args, globals, tad_genes_df, snp_df, results_df,
                   results_columns, nearest_gene_df, files>>

\* Lines 85-124 for a SNP that lies in a TAD.
CollectSnp ==
    /\ pc = "loop"
    /\ ~LoopFinished
    /\ LET tad_assignment == assign_custom_snp_to_tad(snp_series, tad_genes_df)
       IN  /\ tad_assignment # <<>>
           /\ \E order \in sort_values(
                               start_dist(tad_assignment, snp_series.position)) :
                  nearest_gene_df' = nearest_gene_df \o
                      nearest_gene_return(
                          nearest_gene(tad_assignment, order,
                                       snp_series.position),
                          snp_series.snp, group)
           /\ results_df' = results_df \o
                  annotate(tad_assignment, snp_series.snp, group)
           /\ results_columns' =
                  results_columns \cup TadColumns \cup {"custom_snp", "group"}
    /\ Advance
    /\ UNCHANGED <<pc, error, args, globals, tad_genes_df, snp_df, files>>

\* Lines 126-132.  Assigning a list of labels to DataFrame.columns raises
\* ValueError when its length differs from the number of columns.
OutputResults ==
    /\ pc = "loop"
    /\ LoopFinished
    /\ IF Cardinality(results_columns) = Len(OutputColumns)
       THEN /\ files' = (globals.output_file :> results_df) @@
                        (globals.output_nearest_gene_file :> nearest_gene_df) @@
                        files
            /\ pc' = "done"
            /\ UNCHANGED error
       ELSE /\ pc' = "raised"
            /\ error' = "ValueError"
            /\ UNCHANGED files
    /\ UNCHANGED <<args, globals, tad_genes_df, snp_df, group_idx, row_idx,
                   results_df, results_columns, nearest_gene_df>>

-----------------------------------------------------------------------------
(* Specifications *)

CommandLine ==
    [snp_data_file |-> "snps.tsv", output_file |-> "results/out.tsv",
     TAD_Boundary |-> "hESC"]

\* The state at line 80, the tables loaded and the result tables empty.
AtLoop(tad, snps) ==
    /\ pc = "loop"
    /\ error = "none"
    /\ args = CommandLine
    /\ globals = script_constants(CommandLine) @@
                     [index_file |-> index_file_name(CommandLine.TAD_Boundary)]
    /\ tad_genes_df = tad
    /\ snp_df = snps
    /\ group_idx = 1
    /\ row_idx = 1
    /\ results_df = <<>>
    /\ results_columns = TadColumns \cup {"group"}
    /\ nearest_gene_df = <<>>
    /\ files = <<>>

Init ==
    \E tad \in NamedTables(LoopGenes, MaxTadRows),
       snps \in SeqsUpTo(LoopSnps, MaxSnpRows) :
        AtLoop(tad, snps)

Next == SkipSnp \/ CollectSnp \/ OutputResults

Spec == Init /\ [][Next]_vars

\* One SNP at any locus against genes in any TAD of two chromosomes.
InitLookup ==
    \E tad \in NamedTables({GeneKind(c, iv, "protein_coding", <<0, MaxPos>>) :
                               c \in {"1", "X"}, iv \in TadIntervals},
                           MaxTadRows),
       c \in {"chr1", "chrX"}, p \in 0..MaxPos :
        AtLoop(tad, <<SnpRow(c, p, "g1")>>)

SpecLookup == InitLookup /\ [][Next]_vars

\* One SNP at any locus of a TAD against genes of any type and span.
InitNearest ==
    \E tad \in NamedTables({GeneKind("1", <<0, MaxPos + 1>>, t, sp) :
                               t \in GeneTypes, sp \in Spans}, MaxTadRows),
       p \in 0..MaxPos :
        AtLoop(tad, <<SnpRow("chr1", p, "g1")>>)

SpecNearest == InitNearest /\ [][Next]_vars

\* The script from its first statement after argument parsing.
InitScript ==
    /\ pc = "constants"
    /\ error = "none"
    /\ args \in [snp_data_file : {"snps.tsv", "data/gwas.tsv", "t2d.snps"},
                 output_file : {"out.tsv", "results/out.tsv", "results.d/out",
                                ".out"},
                 TAD_Boundary : {"hESC", "IMR90", "mESC", "cortex"}]
    /\ globals = <<>>
    /\ tad_genes_df = <<>>
    /\ snp_df = <<>>
    /\ group_idx = 1
    /\ row_idx = 1
    /\ results_df = <<>>
    /\ results_columns = {}
    /\ nearest_gene_df = <<>>
    /\ files = <<>>

NextScript == LoadConstants \/ LoadData

SpecScript == InitScript /\ [][NextScript]_vars

-----------------------------------------------------------------------------
(* What the tables must hold, stated over the inputs *)

\* The rows of df at the labels I, in ascending label order.
RowsAt(df, I) ==
    [k \in 1..Cardinality(I) |->
        df[CHOOSE i \in I : Cardinality({j \in I : j < i}) = k - 1]]

\* Labels of the index rows whose TAD holds the SNP s.
InTadOf(s) ==
    {i \in DOMAIN tad_genes_df :
        /\ "chr" \o tad_genes_df[i].chromosome = s.chrom
        /\ tad_genes_df[i].TAD_start <= s.position
        /\ s.position < tad_genes_df[i].TAD_end}

CodingIn(s) ==
    {i \in InTadOf(s) : tad_genes_df[i].gene_type = "protein_coding"}

StartDist(i, s) == Abs(tad_genes_df[i].start - s.position)

StopDist(i, s) == Abs(tad_genes_df[i].stop - s.position)

Dist(i, s) == IF StartDist(i, s) <= StopDist(i, s) THEN StartDist(i, s)
              ELSE StopDist(i, s)

Achieving(s) ==
    {i \in CodingIn(s) : \A j \in CodingIn(s) : Dist(i, s) <= Dist(j, s)}

\* The SNP rows a nearest-gene row n can stem from.
SnpOf(n) == {s \in Range(snp_df) : s.snp = n.snp /\ s.group = n.group}

Count(df, r) == Cardinality({i \in DOMAIN df : df[i] = r})

Annotated(i, j) ==
    tad_genes_df[j] @@
        [custom_snp |-> snp_df[i].snp, group |-> snp_df[i].group]

Terminated == pc \in {"done", "raised"}

-----------------------------------------------------------------------------
\* C1: for every SNP of the table, assign_custom_snp_to_tad returns exactly the
\* index rows whose chromosome is the SNP's chromosome without its "chr"
\* prefix and whose interval satisfies TAD_start <= p < TAD_end, each once
\* and in row order.
C1_LookupIsHalfOpenInterval ==
    \A s \in Range(snp_df) :
        assign_custom_snp_to_tad(s, tad_genes_df) =
            RowsAt(tad_genes_df, InTadOf(s))

\* A finished run whose SNP sits on the TAD_start of one gene row and on the
\* TAD_end of another of its chromosome: only the first was collected.
C1_Witness ==
    /\ pc = "done"
    /\ Len(snp_df) = 1
    /\ \E i, j \in DOMAIN tad_genes_df :
           /\ "chr" \o tad_genes_df[i].chromosome = snp_df[1].chrom
           /\ "chr" \o tad_genes_df[j].chromosome = snp_df[1].chrom
           /\ tad_genes_df[i].TAD_start = snp_df[1].position
           /\ tad_genes_df[j].TAD_end = snp_df[1].position
           /\ Len(results_df) = 1
           /\ results_df[1].gene_name = tad_genes_df[i].gene_name

\* C2 (as claimed): when several protein-coding rows of a SNP's matched set
\* achieve the minimum distance, the reported gene is that of the achieving
\* row that comes first in the row order of the index.
C2_FirstInRowOrderWins ==
    \A k \in DOMAIN nearest_gene_df :
        \A s \in SnpOf(nearest_gene_df[k]) :
            Cardinality(Achieving(s)) > 1 =>
                nearest_gene_df[k].gene =
                    tad_genes_df[Min(Achieving(s))].gene_name

\* C2 (amended): when several protein-coding rows achieve the minimum
\* distance, the reported gene is that of an achieving row whose start
\* distance is the smallest among the achieving rows.
C2_SmallestStartDistanceWins ==
    \A k \in DOMAIN nearest_gene_df :
        \A s \in SnpOf(nearest_gene_df[k]) :
            Cardinality(Achieving(s)) > 1 =>
                \E i \in Achieving(s) :
                    /\ nearest_gene_df[k].gene = tad_genes_df[i].gene_name
                    /\ \A j \in Achieving(s) :
                           StartDist(i, s) <= StartDist(j, s)

\* A finished run in which two rows tie and the later one was reported.
C2_Witness ==
    /\ pc = "done"
    /\ \E k \in DOMAIN nearest_gene_df :
           \E s \in SnpOf(nearest_gene_df[k]) :
               /\ Cardinality(Achieving(s)) > 1
               /\ nearest_gene_df[k].gene #
                      tad_genes_df[Min(Achieving(s))].gene_name

\* C3: the gene reported for a SNP with a protein-coding row in its matched
\* set is the gene of a protein-coding matched row at the minimum of
\* min(|start - p|, |stop - p|), and once the loop is over every such SNP has
\* a reported gene.
C3_NearestIsClosestCodingGene ==
    /\ \A k \in DOMAIN nearest_gene_df :
           \A s \in SnpOf(nearest_gene_df[k]) :
               CodingIn(s) # {} =>
                   \E i \in Achieving(s) :
                       nearest_gene_df[k].gene = tad_genes_df[i].gene_name
    /\ Terminated =>
           \A s \in Range(snp_df) :
               CodingIn(s) # {} =>
                   \E k \in DOMAIN nearest_gene_df : s \in SnpOf(nearest_gene_df[k])

\* A finished run with a matched non-coding row closer to the SNP than every
\* protein-coding one, and a protein-coding gene reported.
C3_Witness ==
    /\ pc = "done"
    /\ \E k \in DOMAIN nearest_gene_df :
           \E s \in SnpOf(nearest_gene_df[k]) :
               /\ CodingIn(s) # {}
               /\ \E j \in InTadOf(s) \ CodingIn(s) :
                      \A i \in CodingIn(s) : Dist(j, s) < Dist(i, s)
               /\ nearest_gene_df[k].gene # ""

\* C4: once the loop is over, the nearest-gene table has as many rows as the
\* SNP table has rows with a non-empty matched set.
C4_OneNearestRowPerMatchedSnp ==
    (pc = "loop" /\ ~LoopFinished) \/
        Len(nearest_gene_df) =
            Cardinality({i \in DOMAIN snp_df : InTadOf(snp_df[i]) # {}})

\* A finished run over SNPs of two groups, some in a TAD and some in none,
\* one of the matched ones without a protein-coding gene.
C4_Witness ==
    /\ pc = "done"
    /\ \E i, j, k \in DOMAIN snp_df :
           /\ InTadOf(snp_df[i]) # {}
           /\ CodingIn(snp_df[i]) = {}
           /\ InTadOf(snp_df[j]) = {}
           /\ InTadOf(snp_df[k]) # {}
           /\ snp_df[k].group # snp_df[i].group
    /\ Len(nearest_gene_df) = 2

\* C5: a SNP whose matched set is non-empty and holds no protein-coding row
\* does not end the run in an exception; each of its rows in the SNP table
\* yields one nearest-gene row with an empty gene, and all its matched rows
\* are in the TAD-gene result table.
C5_NoCodingGeneGivesEmptyNearest ==
    (pc = "loop" /\ ~LoopFinished) \/
        \A i \in DOMAIN snp_df :
            (InTadOf(snp_df[i]) # {} /\ CodingIn(snp_df[i]) = {}) =>
                /\ pc # "raised"
                /\ Count(nearest_gene_df,
                         [gene |-> "", snp |-> snp_df[i].snp,
                          group |-> snp_df[i].group])
                       = Count(snp_df, snp_df[i])
                /\ \A k \in DOMAIN nearest_gene_df :
                       snp_df[i] \in SnpOf(nearest_gene_df[k]) =>
                           nearest_gene_df[k].gene = ""
                /\ \A j \in InTadOf(snp_df[i]) :
                       Count(results_df, Annotated(i, j)) >= 1

\* A finished run with a SNP whose two matched rows are both non-coding.
C5_Witness ==
    /\ pc = "done"
    /\ \E i \in DOMAIN snp_df :
           /\ Cardinality(InTadOf(snp_df[i])) = 2
           /\ CodingIn(snp_df[i]) = {}
           /\ \E k \in DOMAIN nearest_gene_df :
                  /\ nearest_gene_df[k].gene = ""
                  /\ snp_df[i] \in SnpOf(nearest_gene_df[k])

\* C6 (as claimed): a SNP in no TAD adds no row to either table, and every
\* run reaches the output step and writes both tables without raising.
C6_NoMatchRunWritesBothTables ==
    /\ \A k \in DOMAIN nearest_gene_df :
           \A s \in SnpOf(nearest_gene_df[k]) : InTadOf(s) # {}
    /\ \A k \in DOMAIN results_df :
           \A s \in Range(snp_df) :
               (s.snp = results_df[k].custom_snp /\ s.group = results_df[k].group)
                   => InTadOf(s) # {}
    /\ pc # "raised"
    /\ pc = "done" =>
           /\ globals.output_file \in DOMAIN files
           /\ globals.output_nearest_gene_file \in DOMAIN files

\* C7: once the loop is over, the TAD-gene result table holds, for every SNP
\* row and every row of its matched set, the index row with the SNP's RSid
\* and group added, as many times as there are such pairs, and nothing else.
C7_OneResultRowPerSnpGenePair ==
    (pc = "loop" /\ ~LoopFinished) \/
        LET pairs == {ij \in (DOMAIN snp_df) \X (DOMAIN tad_genes_df) :
                         ij[2] \in InTadOf(snp_df[ij[1]])}
        IN  /\ Len(results_df) = Cardinality(pairs)
            /\ \A ij \in pairs :
                   Count(results_df, Annotated(ij[1], ij[2])) =
                       Cardinality({kl \in pairs :
                           Annotated(kl[1], kl[2]) = Annotated(ij[1], ij[2])})

\* A finished run in which one SNP gave two result rows, one of them a
\* non-coding gene, and another SNP gave a row of its own.
C7_Witness ==
    /\ pc = "done"
    /\ \E i, k \in DOMAIN snp_df :
           /\ Cardinality(InTadOf(snp_df[i])) = 2
           /\ InTadOf(snp_df[i]) # CodingIn(snp_df[i])
           /\ snp_df[k].snp # snp_df[i].snp
           /\ InTadOf(snp_df[k]) # {}
    /\ Len(results_df) >= 3

\* C8 (as claimed): the run builds the index file name from the value of
\* --TAD_Boundary and goes on to the SNP loop.
C8_IndexFileSelectedByFlag ==
    pc \in {"constants", "load"} \/
        /\ pc = "loop"
        /\ "index_file" \in DOMAIN globals
        /\ globals.index_file = "GENE_index_hg19_" \o args.TAD_Boundary \o ".tsv.bz2"

\* C9: in every state between two SNPs, both result tables name the same
\* (SNP, group) pairs, and a non-empty nearest gene is the gene_name of a
\* protein_coding row the TAD-gene result table holds for that SNP and group.
C9_TablesAgree ==
    /\ {<<nearest_gene_df[k].snp, nearest_gene_df[k].group>> :
           k \in DOMAIN nearest_gene_df}
       = {<<results_df[k].custom_snp, results_df[k].group>> :
           k \in DOMAIN results_df}
    /\ \A k \in DOMAIN nearest_gene_df :
           nearest_gene_df[k].gene # "" =>
               \E m \in DOMAIN results_df :
                   /\ results_df[m].custom_snp = nearest_gene_df[k].snp
                   /\ results_df[m].group = nearest_gene_df[k].group
                   /\ results_df[m].gene_name = nearest_gene_df[k].gene
                   /\ results_df[m].gene_type = "protein_coding"

\* A state inside the loop, SNPs still to come, in which rows of two groups
\* are collected and one of them has a nearest gene.
C9_Witness ==
    /\ pc = "loop"
    /\ ~LoopFinished
    /\ \E k, m \in DOMAIN nearest_gene_df :
           /\ nearest_gene_df[k].group # nearest_gene_df[m].group
           /\ nearest_gene_df[k].gene # ""

FirstPos(g) == Min({i \in DOMAIN snp_df : snp_df[i].group = g})

VisitsBefore(i, j) ==
    \/ FirstPos(snp_df[i].group) < FirstPos(snp_df[j].group)
    \/ snp_df[i].group = snp_df[j].group /\ i < j

\* The SNP rows group by group, groups by first appearance, rows in row order.
VisitOrder ==
    [k \in DOMAIN snp_df |->
        CHOOSE i \in DOMAIN snp_df :
            Cardinality({j \in DOMAIN snp_df : VisitsBefore(j, i)}) = k - 1]

\* Number of SNP rows the loops have dealt with when the outer loop is at
\* group gi and the inner loop at row ri of that group.
VisitedAt(gi, ri) ==
    IF gi > Len(groups) THEN Len(snp_df)
    ELSE LET first == FirstPos(groups[gi])
         IN  Cardinality({i \in DOMAIN snp_df :
                             \E j \in 1..(first - 1) :
                                 snp_df[j].group = snp_df[i].group})
             + ri - 1

Visited == VisitedAt(group_idx, row_idx)

RECURSIVE ExpectedResults(_)
ExpectedResults(k) ==
    IF k = 0 THEN <<>>
    ELSE LET i == VisitOrder[k]
             rows == RowsAt(tad_genes_df, InTadOf(snp_df[i]))
         IN  ExpectedResults(k - 1) \o
                 [j \in DOMAIN rows |->
                     rows[j] @@ [custom_snp |-> snp_df[i].snp,
                                 group |-> snp_df[i].group]]

RECURSIVE ExpectedNearestKeys(_)
ExpectedNearestKeys(k) ==
    IF k = 0 THEN <<>>
    ELSE LET i == VisitOrder[k]
         IN  ExpectedNearestKeys(k - 1) \o
                 (IF InTadOf(snp_df[i]) = {} THEN <<>>
                  ELSE <<[snp |-> snp_df[i].snp, group |-> snp_df[i].group]>>)

IsPrefix(a, b) == Len(a) <= Len(b) /\ a = SubSeq(b, 1, Len(a))

C10_Order ==
    /\ Visited \in 0..Len(snp_df)
    /\ (pc = "loop" /\ ~LoopFinished) =>
           snp_series = snp_df[VisitOrder[Visited + 1]]
    /\ results_df = ExpectedResults(Visited)
    /\ [k \in DOMAIN nearest_gene_df |->
           [snp |-> nearest_gene_df[k].snp, group |-> nearest_gene_df[k].group]]
       = ExpectedNearestKeys(Visited)

C10_Step ==
    /\ IsPrefix(results_df, results_df')
    /\ IsPrefix(nearest_gene_df, nearest_gene_df')
    /\ (pc = "loop" /\ ~LoopFinished) =>
           /\ snp_df' = snp_df
           /\ VisitedAt(group_idx', row_idx') = Visited + 1

\* C10: both tables only grow; after k loop steps they hold what the first k
\* SNP rows give, the SNP rows taken group by group in order of each group's
\* first appearance and in row order within a group, the gene rows of a SNP in
\* index order; each loop step deals with one SNP row not dealt with before,
\* and the loop is over after one step per SNP row.
C10_RowsInGroupOrder == [](C10_Order) /\ [][C10_Step]_vars

\* A finished run over SNPs of groups a, b, a whose tables list both SNPs of
\* a before that of b, one SNP with two gene rows.
C10_Witness ==
    /\ pc = "done"
    /\ Len(snp_df) = 3
    /\ snp_df[1].group = snp_df[3].group
    /\ snp_df[1].group # snp_df[2].group
    /\ snp_df[1].snp # snp_df[3].snp
    /\ Len(nearest_gene_df) = 3
    /\ nearest_gene_df[2].snp = snp_df[3].snp
    /\ nearest_gene_df[3].group = snp_df[2].group
    /\ Len(results_df) = 4

====
